---- MODULE Spec2Model ----
(***************************************************************************)
(* Model of the offline transcript Q&A system (src/transcript_qa.py):      *)
(* transcript loading, chunking, embedding, similarity ranking and the     *)
(* question loop of main().                                                *)
(*                                                                         *)
(* Text is a sequence of one-character strings; a transcript is the        *)
(* sequence of its lines, as transcript.split('\n') yields them.           *)
(***************************************************************************)
EXTENDS Integers, Sequences, FiniteSets, TLC

VARIABLES
    pc,             \* position in main(): "start", "chunking", "chunked", "prompt",
                    \* "done", or "fatal_..." (line 281, with the error it reports)
    files,          \* contents of the *.txt files of the transcript directory
    chunk_size,     \* self.chunk_size
    transcripts,    \* self.transcripts
    ti,             \* index of the transcript the loop of line 102 is at
    li,             \* index of the line the loop of line 107 is at
    current_chunk,  \* the running buffer of _create_chunks
    chunks,         \* self.chunks
    emitted,        \* history: for every chunk, where and from what it was emitted
    chunk_embeddings,   \* self.chunk_embeddings, row i the embedding of chunk i
    asked,              \* inputs read by the loop of main() so far
    question_embedding, \* the embedding of the last question
    top_k,              \* top_k of the last _find_relevant_chunks call
    similarities,       \* the similarities it computed
    relevant_chunks,    \* the (chunk index, similarity) pairs it returned
    outcome             \* how the handling of the last input ended

chunkVars == <<pc, files, chunk_size, transcripts, ti, li, current_chunk, chunks, emitted>>
queryVars == <<chunk_embeddings, asked, question_embedding, top_k, similarities,
               relevant_chunks, outcome>>
vars == <<chunkVars, queryVars>>

(***************************************************************************)
(* Bounds                                                                  *)
(***************************************************************************)
MaxLines == 3          \* lines in all transcripts of a run together
MaxChunkSize == 4      \* chunk sizes 0..MaxChunkSize are tried, and the default
MaxChunks == 3         \* chunks of a corpus that is ranked directly
MaxTopK == 4           \* top_k of a direct _find_relevant_chunks call
MaxSessionLines == 2   \* lines in all transcript files of a session together
MaxQuestions == 2      \* inputs the question loop reads in a run

\* line 27: chunk_size: int = 500
DefaultChunkSize == 500
ChunkSizes == (0..MaxChunkSize) \cup {DefaultChunkSize}

(***************************************************************************)
(* Text helpers                                                            *)
(***************************************************************************)
Space == " "
Digits == {"0", "1", "2", "3", "4", "5", "6", "7", "8", "9"}

SetMin(S) == CHOOSE x \in S : \A y \in S : x <= y
SetMax(S) == CHOOSE x \in S : \A y \in S : x >= y

\* str.strip(): leading and trailing whitespace removed
Strip(s) ==
    LET ink == {i \in 1..Len(s) : s[i] # Space}
    IN  IF ink = {} THEN <<>> ELSE SubSeq(s, SetMin(ink), SetMax(ink))

\* re.match(r'^\d+:\d+$', s): digits, one colon, digits, nothing else
MatchesTimestamp(s) ==
    \E i \in 2..(Len(s) - 1) :
        /\ s[i] = ":"
        /\ \A j \in (1..Len(s)) \ {i} : s[j] \in Digits

\* line 109: the test is made on line.strip()
IsTimestampLine(line) == MatchesTimestamp(Strip(line))

\* sep.join(parts)
RECURSIVE Join(_, _)
Join(parts, sep) ==
    IF parts = <<>> THEN <<>>
    ELSE IF Len(parts) = 1 THEN parts[1]
    ELSE parts[1] \o sep \o Join(Tail(parts), sep)

\* s.split(): the maximal runs of non-whitespace characters of s, in order
RECURSIVE WordsFrom(_, _, _)
WordsFrom(s, i, cur) ==
    IF i > Len(s) THEN (IF cur = <<>> THEN <<>> ELSE <<cur>>)
    ELSE IF s[i] = Space
         THEN (IF cur = <<>> THEN <<>> ELSE <<cur>>) \o WordsFrom(s, i + 1, <<>>)
         ELSE WordsFrom(s, i + 1, Append(cur, s[i]))
Words(s) == WordsFrom(s, 1, <<>>)

\* len(transcript): the lines and the newlines between them
RECURSIVE SumLen(_)
SumLen(ls) == IF ls = <<>> THEN 0 ELSE Len(ls[1]) + SumLen(Tail(ls))
TranscriptLen(t) == SumLen(t) + (Len(t) - 1)

\* the lines of a transcript that are not timestamp lines, in reading order
RECURSIVE ContentLines(_)
ContentLines(t) ==
    IF t = <<>> THEN <<>>
    ELSE IF IsTimestampLine(t[1]) THEN ContentLines(Tail(t))
    ELSE <<t[1]>> \o ContentLines(Tail(t))

(***************************************************************************)
(* Inputs: lines a transcript is made of                                   *)
(***************************************************************************)
Lines ==
    { <<>>,                          \* an empty line
      <<" ">>,                       \* a whitespace-only line
      <<"a">>,
      <<"b", " ">>,                  \* trailing whitespace
      <<" ", "c">>,                  \* leading whitespace
      <<"1", ":", "2">>,             \* a timestamp
      <<" ", "1", ":", "2", " ">>,   \* a timestamp inside whitespace
      <<"1", ":">> }                 \* looks like a timestamp, is content

\* flat cut into transcripts after the positions in cuts
RECURSIVE Group(_, _, _, _)
Group(flat, cuts, i, cur) ==
    IF i > Len(flat) THEN <<cur>>
    ELSE IF (i - 1) \in cuts
         THEN <<cur>> \o Group(flat, cuts, i + 1, <<flat[i]>>)
         ELSE Group(flat, cuts, i + 1, Append(cur, flat[i]))

\* every list of transcripts of at most n lines together; a file always has
\* at least one line (''.split('\n') is [''])
TranscriptListsOver(L, n) ==
    UNION { { Group(flat, cuts, 2, <<flat[1]>>) :
                 flat \in [1..m -> L], cuts \in SUBSET (1..(m - 1)) } :
            m \in 1..n }
TranscriptLists(n) == TranscriptListsOver(Lines, n)

(***************************************************************************)
(* The state of a query before any question was asked                      *)
(***************************************************************************)
NoOutcome == [kind |-> "none", text |-> "none",
              embed |-> "not_called", synth |-> "not_called"]

NoQueryYet ==
    /\ asked = 0
    /\ question_embedding = <<>>
    /\ top_k = 0
    /\ similarities = <<>>
    /\ relevant_chunks = <<>>
    /\ outcome = NoOutcome

(***************************************************************************)
(* _create_chunks, lines 98-127                                            *)
(***************************************************************************)
\* line 117: current_chunk += line + " "
AppendLineNoSeparator(buf, line) == buf \o line
AppendLine(buf, line) == buf \o line \o <<Space>>

\* lines 111 and 120: len(current_chunk) > self.chunk_size
Over(buf) == Len(buf) > chunk_size

\* lines 111, 121, 126: current_chunk.strip() is truthy
NonBlank(buf) == Strip(buf) # <<>>

\* lines 112, 122, 127: the chunk that is appended to self.chunks
Trimmed(buf) == Strip(buf)

\* lines 113 and 123: current_chunk = ""
KeepBuffer(buf) == buf
ResetBuffer(buf) == <<>>

\* lines 120-121: the size-triggered flush after an append
NeverFlushes(buf) == FALSE
AppendFlushes(buf) == Over(buf) /\ NonBlank(buf)

\* line 111: the flush at a timestamp line
AlwaysFlushes(buf) == NonBlank(buf)
TimestampFlushes(buf) == Over(buf) /\ NonBlank(buf)

CurrentLine == transcripts[ti][li]
InLoop == pc = "chunking" /\ ti <= Len(transcripts)
AtLine == InLoop /\ li <= Len(transcripts[ti])

\* the lines appended to the buffer since it was last reset (history)
Pending == emitted.pending

\* lines 109-114: a timestamp line
TimestampLine ==
    /\ AtLine
    /\ IsTimestampLine(CurrentLine)
    /\ IF TimestampFlushes(current_chunk)
       THEN /\ chunks' = Append(chunks, Trimmed(current_chunk))
            /\ emitted' = [log |-> Append(emitted.log,
                                     [t |-> ti, at |-> li, by |-> "timestamp",
                                      raw |-> current_chunk, lines |-> Pending]),
                           pending |-> <<>>]
            /\ current_chunk' = ResetBuffer(current_chunk)
       ELSE UNCHANGED <<chunks, emitted, current_chunk>>
    /\ li' = li + 1
    /\ UNCHANGED <<pc, files, chunk_size, transcripts, ti, queryVars>>

\* lines 116-123: any other line
ContentLine ==
    /\ AtLine
    /\ ~IsTimestampLine(CurrentLine)
    /\ LET buf == AppendLine(current_chunk, CurrentLine)
           app == Append(Pending, CurrentLine)
       IN  IF AppendFlushes(buf)
           THEN /\ chunks' = Append(chunks, Trimmed(buf))
                /\ emitted' = [log |-> Append(emitted.log,
                                         [t |-> ti, at |-> li, by |-> "append",
                                          raw |-> buf, lines |-> app]),
                               pending |-> <<>>]
                /\ current_chunk' = ResetBuffer(buf)
           ELSE /\ current_chunk' = buf
                /\ emitted' = [emitted EXCEPT !.pending = app]
                /\ UNCHANGED chunks
    /\ li' = li + 1
    /\ UNCHANGED <<pc, files, chunk_size, transcripts, ti, queryVars>>

\* lines 125-127, then line 102 (next transcript) and line 105
EndOfTranscript ==
    /\ InLoop
    /\ li > Len(transcripts[ti])
    /\ IF NonBlank(current_chunk)
       THEN /\ chunks' = Append(chunks, Trimmed(current_chunk))
            /\ emitted' = [log |-> Append(emitted.log,
                                     [t |-> ti, at |-> li, by |-> "end",
                                      raw |-> current_chunk, lines |-> Pending]),
                           pending |-> <<>>]
       ELSE /\ UNCHANGED chunks
            /\ emitted' = [emitted EXCEPT !.pending = <<>>]
    /\ ti' = ti + 1
    /\ li' = 1
    /\ current_chunk' = <<>>     \* line 105 for the next transcript; dead after the last
    /\ pc' = IF ti = Len(transcripts) THEN "chunked" ELSE "chunking"
    /\ UNCHANGED <<files, chunk_size, transcripts, queryVars>>

(***************************************************************************)
(* SpecChunk: _create_chunks on every list of transcripts and chunk size   *)
(***************************************************************************)
InitChunk ==
    /\ pc = "chunking"
    /\ chunk_size \in ChunkSizes
    /\ transcripts \in TranscriptLists(MaxLines)
    /\ files = transcripts
    /\ ti = 1
    /\ li = 1
    /\ current_chunk = <<>>
    /\ chunks = <<>>
    /\ emitted = [log |-> <<>>, pending |-> <<>>]
    /\ chunk_embeddings = <<>>
    /\ NoQueryYet

NextChunk == TimestampLine \/ ContentLine \/ EndOfTranscript

SpecChunk == InitChunk /\ [][NextChunk]_vars

(***************************************************************************)
(* Embeddings and cosine similarity, lines 158-165                         *)
(*                                                                         *)
(* An embedding is a vector of small integers.  A similarity is kept       *)
(* exactly, as the sign and the square of the cosine: the cosine of q and  *)
(* v is sgn(num) * sqrt(|num| / den), with num = sgn(q.v) * (q.v)^2 and    *)
(* den = (q.q) * (v.v).  When a norm is zero numpy divides 0.0 by 0.0,     *)
(* which warns and yields nan.                                             *)
(***************************************************************************)
Components == {-1, 0, 1}
Vectors == Components \X Components

RECURSIVE DotFrom(_, _, _)
DotFrom(u, v, i) == IF i > Len(u) THEN 0 ELSE u[i] * v[i] + DotFrom(u, v, i + 1)
\* np.dot
Dot(u, v) == DotFrom(u, v, 1)

Sign(x) == IF x > 0 THEN 1 ELSE IF x < 0 THEN -1 ELSE 0

NaN == [nan |-> TRUE, num |-> 0, den |-> 1]

\* lines 162-164: np.dot(q, v) / (np.linalg.norm(q) * np.linalg.norm(v))
Similarity(q, v) ==
    LET d == Dot(q, v)
        den == Dot(q, q) * Dot(v, v)
    IN  IF den = 0 THEN NaN ELSE [nan |-> FALSE, num |-> Sign(d) * d * d, den |-> den]

\* lines 159-165: one similarity per row of self.chunk_embeddings
Similarities(q, rows) == [i \in 1..Len(rows) |-> Similarity(q, rows[i])]

\* a < b and a = b on floats: false whenever a nan is involved
NumLess(a, b) == ~a.nan /\ ~b.nan /\ a.num * b.den < b.num * a.den
NumEq(a, b) == ~a.nan /\ ~b.nan /\ a.num * b.den = b.num * a.den

\* the order numpy sorts by: nan after every number
SortsBefore(a, b) == ~a.nan /\ (b.nan \/ NumLess(a, b))

Perms(n) == {p \in [1..n -> 1..n] : \A i, j \in 1..n : p[i] = p[j] => i = j}

\* np.argsort(sims): an index order that puts sims in ascending order.  The
\* default kind is quicksort, which is not stable: equal elements come out in
\* any order.
ArgSorts(sims) ==
    {p \in Perms(Len(sims)) :
        \A i, j \in 1..Len(sims) : i < j => ~SortsBefore(sims[p[j]], sims[p[i]])}

\* a[-k:]: for k = 0 the start index -0 is 0 and the slice is all of a
LastK(a, k) ==
    IF k = 0 \/ k >= Len(a) THEN a
    ELSE IF k < 0 THEN SubSeq(a, 1 - k, Len(a))
    ELSE SubSeq(a, Len(a) - k + 1, Len(a))

\* a[::-1]
Reverse(a) == [i \in 1..Len(a) |-> a[Len(a) + 1 - i]]

\* line 168: the index orders np.argsort(similarities)[-top_k:][::-1] can be
TopIndices(sims, k) == {Reverse(LastK(p, k)) : p \in ArgSorts(sims)}

\* lines 170-172: (self.chunks[idx], similarities[idx]) for idx in top_indices;
\* idx is kept beside the pair
RelevantChunks(top, sims) ==
    [i \in 1..Len(top) |->
        [idx |-> top[i], chunk |-> chunks[top[i]], score |-> sims[top[i]]]]

(***************************************************************************)
(* _find_relevant_chunks, lines 144-174, once the question is embedded     *)
(***************************************************************************)
FindRelevantChunks(q, k) ==
    LET sims == Similarities(q, chunk_embeddings)
    IN  /\ question_embedding' = q
        /\ top_k' = k
        /\ similarities' = sims
        /\ \E top \in TopIndices(sims, k) :
              relevant_chunks' = RelevantChunks(top, sims)

\* a call has been made
Called == question_embedding # <<>>

\* a direct call with any question and any top_k >= 0.  A call reads nothing
\* an earlier call wrote, so one call is made per corpus.
Rank ==
    /\ pc = "prompt"
    /\ ~Called
    /\ \E q \in Vectors, k \in 0..MaxTopK : FindRelevantChunks(q, k)
    /\ UNCHANGED <<chunkVars, chunk_embeddings, asked, outcome>>

(***************************************************************************)
(* SpecRank: _find_relevant_chunks on every corpus of embeddings           *)
(***************************************************************************)
\* a system built from n one-line transcripts (one blank file when n = 0)
OneLiners(n) == IF n = 0 THEN << << <<>> >> >> ELSE [i \in 1..n |-> << <<"a">> >>]

InitRank ==
    \E n \in 0..MaxChunks :
        /\ pc = "prompt"
        /\ chunk_size = DefaultChunkSize
        /\ files = OneLiners(n)
        /\ transcripts = files
        /\ ti = Len(transcripts) + 1
        /\ li = 1
        /\ current_chunk = <<>>
        /\ chunks = [i \in 1..n |-> <<"a">>]
        /\ emitted = [log |-> [i \in 1..n |->
                                  [t |-> i, at |-> 2, by |-> "end",
                                   raw |-> <<"a", " ">>, lines |-> << <<"a">> >>]],
                      pending |-> <<>>]
        /\ chunk_embeddings \in [1..n -> Vectors]
        /\ NoQueryYet

SpecRank == InitRank /\ [][Rank]_vars

(***************************************************************************)
(* __init__ and main(), lines 27-77 and 239-283                            *)
(***************************************************************************)
\* line 190: top_k=3
TopKAnswer == 3

\* the vectors the embedder returns in a run of main()
SessionVectors == { <<0, 0>>, <<1, 0>>, <<-1, 0>>, <<0, 1>> }

\* line 86: if not transcript_files
FilesAlwaysFound(fs) == FALSE
NoFiles(fs) == fs = <<>>

\* line 40: the embedding model cannot be loaded; main() reports it (line 281)
ModelLoadFails ==
    /\ pc = "start"
    /\ pc' = "fatal_model"
    /\ UNCHANGED <<files, chunk_size, transcripts, ti, li, current_chunk, chunks,
                   emitted, queryVars>>

\* lines 79-96, called at line 75; FileNotFoundError ends main() at line 281
LoadTranscripts ==
    /\ pc = "start"
    /\ IF NoFiles(files)
       THEN /\ pc' = "fatal_no_transcripts"
            /\ UNCHANGED transcripts
       ELSE /\ transcripts' = files
            /\ pc' = "chunking"
    /\ UNCHANGED <<files, chunk_size, ti, li, current_chunk, chunks, emitted, queryVars>>

\* lines 136-142, called at line 77: the embedder returns one row per chunk
EmbedChunks ==
    /\ pc = "chunked"
    /\ chunk_embeddings' \in [1..Len(chunks) -> SessionVectors]
    /\ pc' = "prompt"
    /\ UNCHANGED <<files, chunk_size, transcripts, ti, li, current_chunk, chunks,
                   emitted, asked, question_embedding, top_k, similarities,
                   relevant_chunks, outcome>>

\* line 141: the embedder fails on the corpus; main() reports it (line 281)
EmbedChunksFails ==
    /\ pc = "chunked"
    /\ pc' = "fatal_embedder"
    /\ UNCHANGED <<files, chunk_size, transcripts, ti, li, current_chunk, chunks,
                   emitted, queryVars>>

CanRead == pc = "prompt" /\ asked < MaxQuestions

\* lines 257-261: a quit token
Quit ==
    /\ CanRead
    /\ pc' = "done"
    /\ asked' = asked + 1
    /\ outcome' = [kind |-> "quit", text |-> "Goodbye!",
                   embed |-> "not_called", synth |-> "not_called"]
    /\ UNCHANGED <<files, chunk_size, transcripts, ti, li, current_chunk, chunks,
                   emitted, chunk_embeddings, question_embedding, top_k,
                   similarities, relevant_chunks>>

\* lines 263-265: an empty input
EmptyQuestion ==
    /\ CanRead
    /\ asked' = asked + 1
    /\ outcome' = [kind |-> "skipped", text |-> "enter_a_question",
                   embed |-> "not_called", synth |-> "not_called"]
    /\ UNCHANGED <<chunkVars, chunk_embeddings, question_embedding, top_k,
                   similarities, relevant_chunks>>

\* how answer_question ends when the embedder fails at line 156
PropagatesEmbedFailure ==
    [kind |-> "raised", text |-> "embedder_error",
     embed |-> "failed", synth |-> "not_called"]

\* lines 233-234: the synthesis call answers with a status other than 200
RaisesOnStatus == [kind |-> "raised", text |-> "status_error",
                   embed |-> "ok", synth |-> "status"]
ReturnsStatusError == [kind |-> "returned", text |-> "Error generating answer: status",
                       embed |-> "ok", synth |-> "status"]

\* lines 236-237: the synthesis call raises (no connection, a body that is no JSON)
ReturnsExceptionError == [kind |-> "returned", text |-> "Error generating answer: exception",
                          embed |-> "ok", synth |-> "exception"]

\* lines 267-277: one question, whose embedding fails (line 156, reached from
\* line 190, outside the try of line 210); main() prints the exception at
\* line 277 and reads on
AskEmbedFails ==
    /\ CanRead
    /\ asked' = asked + 1
    /\ outcome' = PropagatesEmbedFailure
    /\ UNCHANGED <<chunkVars, chunk_embeddings, question_embedding, top_k,
                   similarities, relevant_chunks>>

\* lines 190-193: retrieval is empty
AskNothingRelevant ==
    /\ CanRead
    /\ asked' = asked + 1
    /\ \E q \in SessionVectors : FindRelevantChunks(q, TopKAnswer)
    /\ relevant_chunks' = <<>>
    /\ outcome' = [kind |-> "returned", text |-> "no_relevant_information",
                   embed |-> "ok", synth |-> "not_called"]
    /\ UNCHANGED <<chunkVars, chunk_embeddings>>

\* lines 195-232: the synthesis call succeeds
AskAnswered ==
    /\ CanRead
    /\ asked' = asked + 1
    /\ \E q \in SessionVectors : FindRelevantChunks(q, TopKAnswer)
    /\ relevant_chunks' # <<>>
    /\ outcome' = [kind |-> "returned", text |-> "answer",
                   embed |-> "ok", synth |-> "ok"]
    /\ UNCHANGED <<chunkVars, chunk_embeddings>>

\* lines 195-234: the synthesis call answers with another status
AskSynthStatus ==
    /\ CanRead
    /\ asked' = asked + 1
    /\ \E q \in SessionVectors : FindRelevantChunks(q, TopKAnswer)
    /\ relevant_chunks' # <<>>
    /\ outcome' = ReturnsStatusError
    /\ UNCHANGED <<chunkVars, chunk_embeddings>>

\* lines 195-237: the synthesis call raises
AskSynthException ==
    /\ CanRead
    /\ asked' = asked + 1
    /\ \E q \in SessionVectors : FindRelevantChunks(q, TopKAnswer)
    /\ relevant_chunks' # <<>>
    /\ outcome' = ReturnsExceptionError
    /\ UNCHANGED <<chunkVars, chunk_embeddings>>

(***************************************************************************)
(* Spec: a run of main()                                                   *)
(***************************************************************************)
SessionLines == { <<"a">>, <<" ">>, <<"1", ":", "2">> }

Init ==
    /\ pc = "start"
    /\ chunk_size = DefaultChunkSize
    /\ files \in {<<>>} \cup TranscriptListsOver(SessionLines, MaxSessionLines)
    /\ transcripts = <<>>
    /\ ti = 1
    /\ li = 1
    /\ current_chunk = <<>>
    /\ chunks = <<>>
    /\ emitted = [log |-> <<>>, pending |-> <<>>]
    /\ chunk_embeddings = <<>>
    /\ NoQueryYet

Next ==
    \/ ModelLoadFails
    \/ LoadTranscripts
    \/ TimestampLine
    \/ ContentLine
    \/ EndOfTranscript
    \/ EmbedChunks
    \/ EmbedChunksFails
    \/ Quit
    \/ EmptyQuestion
    \/ AskEmbedFails
    \/ AskNothingRelevant
    \/ AskAnswered
    \/ AskSynthStatus
    \/ AskSynthException

Spec == Init /\ [][Next]_vars

(***************************************************************************)
(* What the chunk claims speak of                                          *)
(***************************************************************************)
\* the chunks emitted while transcript t was processed, in order
RECURSIVE ChunksFrom(_, _)
ChunksFrom(t, i) ==
    IF i > Len(chunks) THEN <<>>
    ELSE IF emitted.log[i].t = t THEN <<chunks[i]>> \o ChunksFrom(t, i + 1)
    ELSE ChunksFrom(t, i + 1)
ChunksOf(t) == ChunksFrom(t, 1)

\* transcript t has been processed to its end
Finished(t) == pc = "chunked" \/ ti > t

\* the non-timestamp lines of transcript t joined by the chunker's separator
Content(t) == Join(ContentLines(transcripts[t]), <<Space>>)
Rejoined(t) == Join(ChunksOf(t), <<Space>>)

\* no line of t is blank or has whitespace at either end
CleanLines(t) == \A k \in 1..Len(transcripts[t]) :
                    LET l == transcripts[t][k]
                    IN  l # <<>> /\ Strip(l) = l

Short(t) == TranscriptLen(transcripts[t]) < chunk_size

\* C1 as stated: the chunks of every transcript, joined by one space, are
\* exactly its non-timestamp lines joined by one space.
C1_Original ==
    \A t \in 1..Len(transcripts) : Finished(t) => Rejoined(t) = Content(t)

\* C1 amended: joined by one space, the chunks of every transcript hold the
\* same words in the same order as its non-timestamp lines joined by one
\* space (nothing but whitespace is lost, nothing is duplicated), and the
\* two are exactly equal when no line is blank or has whitespace at an end.
C1_Amended ==
    \A t \in 1..Len(transcripts) :
        Finished(t) =>
            /\ Words(Rejoined(t)) = Words(Content(t))
            /\ CleanLines(t) => Rejoined(t) = Content(t)

\* a transcript of three content lines came out as several chunks
C1_Witness ==
    /\ pc = "chunked"
    /\ \E t \in 1..Len(transcripts) :
          /\ Len(ChunksOf(t)) >= 2
          /\ Len(ContentLines(transcripts[t])) >= 3
          /\ Words(Content(t)) # <<>>

\* C7 as stated: a transcript shorter than max_size characters produces
\* exactly one chunk, holding all its non-timestamp lines.
C7_Original ==
    \A t \in 1..Len(transcripts) :
        (Finished(t) /\ Short(t)) =>
            /\ Len(ChunksOf(t)) = 1
            /\ Words(ChunksOf(t)[1]) = Words(Content(t))

\* C7 amended: a transcript shorter than max_size characters produces at most
\* one chunk: none when its non-timestamp lines are all blank, and otherwise
\* exactly one, the trimmed single-space join of its non-timestamp lines.
C7_Amended ==
    \A t \in 1..Len(transcripts) :
        (Finished(t) /\ Short(t)) =>
            ChunksOf(t) = IF Strip(Content(t)) = <<>> THEN <<>>
                          ELSE <<Strip(Content(t))>>

\* a short transcript with a timestamp line and two content lines gave one chunk
C7_Witness ==
    /\ pc = "chunked"
    /\ \E t \in 1..Len(transcripts) :
          /\ Short(t)
          /\ Len(ContentLines(transcripts[t])) = 2
          /\ Len(transcripts[t]) = 3
          /\ Len(ChunksOf(t)) = 1
          /\ Len(Words(ChunksOf(t)[1])) = 2

\* a step of the loop of line 107 that processes one line
LineStep == AtLine /\ li' = li + 1
\* such a step on a non-timestamp line, and the buffer right after line 117
ContentStep == LineStep /\ ~IsTimestampLine(CurrentLine)
Grown == current_chunk \o CurrentLine \o <<Space>>

C10_ChunkLength ==
    \A i \in 1..Len(chunks) :
        LET ls == emitted.log[i].lines
        IN  Len(chunks[i]) <= chunk_size + Len(ls[Len(ls)])

\* a chunk exceeds max_size by exactly the length of its last line
C10_Witness ==
    \E i \in 1..Len(chunks) :
        LET ls == emitted.log[i].lines
        IN  /\ chunk_size > 0
            /\ Len(ls) >= 2
            /\ Len(chunks[i]) = chunk_size + Len(ls[Len(ls)])

\* lines 105-127 run on the lines ls of a transcript none of which is a
\* timestamp line: the chunks it appends, from line i on with buffer buf
RECURSIVE ChunkLines(_, _, _)
ChunkLines(ls, i, buf) ==
    IF i > Len(ls)
    THEN (IF Strip(buf) # <<>> THEN <<Strip(buf)>> ELSE <<>>)
    ELSE LET grown == buf \o ls[i] \o <<Space>>
         IN  IF Len(grown) > chunk_size /\ Strip(grown) # <<>>
             THEN <<Strip(grown)>> \o ChunkLines(ls, i + 1, <<>>)
             ELSE ChunkLines(ls, i + 1, grown)

\* the chunks of transcript t with all its timestamp lines deleted
ChunksWithoutTimestamps(t) == ChunkLines(ContentLines(transcripts[t]), 1, <<>>)

\* C11: timestamp lines never change the chunking: at every timestamp line
\* the buffer is at most max_size long or whitespace-only, no chunk is ever
\* emitted by the timestamp branch, and the chunks of every transcript are
\* those of the same transcript with all timestamp lines deleted.
C11_TimestampsInert ==
    /\ (AtLine /\ IsTimestampLine(CurrentLine)) =>
          (Len(current_chunk) <= chunk_size \/ Strip(current_chunk) = <<>>)
    /\ \A i \in 1..Len(chunks) : emitted.log[i].by # "timestamp"
    /\ \A t \in 1..Len(transcripts) :
          Finished(t) => ChunksOf(t) = ChunksWithoutTimestamps(t)

\* a timestamp line was passed with content in the buffer, and the chunk
\* emitted later holds the lines from both sides of it
C11_Witness ==
    /\ pc = "chunked"
    /\ chunk_size > 0
    /\ \E i \in 1..Len(chunks) :
          LET t == transcripts[emitted.log[i].t]
          IN  /\ Len(t) = 3
              /\ IsTimestampLine(t[2])
              /\ Len(emitted.log[i].lines) = 2
              /\ Len(Words(chunks[i])) = 2
              /\ emitted.log[i].by = "append"

(***************************************************************************)
(* What the ranking and session claims speak of                            *)
(***************************************************************************)
Min(a, b) == IF a <= b THEN a ELSE b
NoNaN == \A i \in 1..Len(similarities) : ~similarities[i].nan
Selected == {relevant_chunks[i].idx : i \in 1..Len(relevant_chunks)}

\* C2: the result is in descending score order, equal scores in ascending
\* chunk index order, and of tied chunks on both sides of the cut the ones
\* with the lowest index are selected (stated for scores that are numbers
\* and top_k >= 1, so that neither a nan nor the slice of top_k = 0 decides it).
C2_TieOrder ==
    (Called /\ NoNaN /\ top_k >= 1) =>
        /\ \A i, j \in 1..Len(relevant_chunks) :
              i < j =>
                 LET a == relevant_chunks[i]
                     b == relevant_chunks[j]
                 IN  \/ NumLess(b.score, a.score)
                     \/ (NumEq(a.score, b.score) /\ a.idx < b.idx)
        /\ \A s \in Selected, u \in (1..Len(similarities)) \ Selected :
              NumEq(similarities[s], similarities[u]) => s < u

\* C3: a call with top_k = k >= 0 on n chunks returns exactly min(k, n) results.
C3_ResultCount ==
    Called => Len(relevant_chunks) = Min(top_k, Len(chunk_embeddings))

\* C4: every chunk gets a defined number as its score, also when the query
\* vector or its own vector is the zero vector.
C4_FallbackScore ==
    Called => \A i \in 1..Len(similarities) : ~similarities[i].nan

\* C5: when the embedder fails on a question, answer_question returns an
\* error string; the exception does not leave answer_question.
C5_EmbedFailureCaught ==
    outcome.embed = "failed" => outcome.kind = "returned"

SynthFailures == {"status", "exception"}
ErrorStrings == {"Error generating answer: status", "Error generating answer: exception"}

\* C6: a question whose synthesis call fails ends with answer_question
\* returning an error string and the loop back at its prompt, and no step
\* taken from the prompt changes the chunk list or the embedding matrix.
C6_SynthesisFailure ==
    [][ /\ (asked' = asked + 1 /\ outcome'.synth \in SynthFailures) =>
              /\ outcome'.kind = "returned"
              /\ outcome'.text \in ErrorStrings
              /\ pc' = "prompt"
        /\ pc = "prompt" =>
              /\ chunks' = chunks
              /\ chunk_embeddings' = chunk_embeddings ]_vars

\* a second question in a row failed in synthesis and the loop is at its prompt
C6_Witness ==
    /\ pc = "prompt"
    /\ asked >= 2
    /\ outcome.synth \in SynthFailures
    /\ outcome.kind = "returned"
    /\ Len(chunks) >= 2
    /\ Len(chunk_embeddings) = Len(chunks)

\* C8: with no transcript file, initialization ends in the fatal error before
\* anything is chunked or embedded, and no question is read or answered.
C8_NoTranscripts ==
    files = <<>> =>
        /\ pc \in {"start", "fatal_model", "fatal_no_transcripts"}
        /\ transcripts = <<>>
        /\ chunks = <<>>
        /\ current_chunk = <<>>
        /\ chunk_embeddings = <<>>
        /\ asked = 0
        /\ outcome = NoOutcome

\* the run ended on the missing transcripts
C8_Witness == files = <<>> /\ pc = "fatal_no_transcripts"

====
